---- MODULE Spec2Model ----
(***************************************************************************)
(* Model of robustness/datasets.py: the DataSet descriptor, its argument   *)
(* validation (DataSet.__init__), the default/override merge               *)
(* (DataSet.override_args), the variant constructors (ImageNet, Places365, *)
(* RestrictedImageNet, CustomImageNet), get_model and make_loaders.        *)
(*                                                                         *)
(* Python values are records [type, v]: `type` is the concrete runtime     *)
(* class of the value and `v` an integer telling values of one class       *)
(* apart.  Mappings (dicts, **kwargs) are functions from key names to      *)
(* values.  A call's outcome is a record holding whether it raised, the    *)
(* exception, the return value, the calls it made to the external          *)
(* collaborators, and the state in which it left the objects it was given. *)
(***************************************************************************)
EXTENDS Integers, Sequences, FiniteSets, TLC

(* ---------------------------- bounds ----------------------------------- *)
\* largest number of keyword overrides a caller passes to a variant constructor
MaxOverrides == 2
\* largest number of groups in the custom_grouping given to CustomImageNet
MaxGroups == 2

(* ---------------------------- Python values ---------------------------- *)
None == [type |-> "NoneType", v |-> 0]
PyInt(n) == [type |-> "int", v |-> n]
PyBool(b) == [type |-> "bool", v |-> b]
Tensor(i) == [type |-> "Tensor", v |-> i]
Compose(i) == [type |-> "Compose", v |-> i]
Function(i) == [type |-> "function", v |-> i]
Dict(i) == [type |-> "dict", v |-> i]
Class(i) == [type |-> "type", v |-> i]

\* issubclass(t, u): bool is a subclass of int, every class of itself
issubclass(t, u) == t = u \/ (t = "bool" /\ u = "int")

\* isinstance replaced by a comparison of the concrete types
isinstance_ExactType(x, t) == x.type = t

\* isinstance(x, t)
isinstance(x, t) == issubclass(x.type, t)

\* the empty mapping
EmptyDict == [k \in {} |-> None]

\* the merge written the other way round, {**b, **a}
DictMerge_DefaultsWin(a, b) == [k \in (DOMAIN a) \cup (DOMAIN b) |-> IF k \in DOMAIN a THEN a[k] ELSE b[k]]

\* {**a, **b}
DictMerge(a, b) == [k \in (DOMAIN a) \cup (DOMAIN b) |-> IF k \in DOMAIN b THEN b[k] ELSE a[k]]

(* ---------------------------- exceptions ------------------------------- *)
NoError == [kind |-> "none", text |-> "", names |-> {}, type |-> ""]
ValueError(text, names, type) == [kind |-> "ValueError", text |-> text, names |-> names, type |-> type]
KeyError(key) == [kind |-> "KeyError", text |-> "", names |-> {key}, type |-> ""]
NotImplementedError == [kind |-> "NotImplementedError", text |-> "", names |-> {}, type |-> ""]

(* ---------------------------- DataSet.__init__ ------------------------- *)
required_args == {"num_classes", "mean", "std", "transform_train", "transform_test"}
optional_args == {"custom_class", "label_mapping", "custom_class_args"}

missing_args(kwargs) == required_args \ DOMAIN kwargs
extra_args(kwargs) == (DOMAIN kwargs) \ (required_args \cup optional_args)

\* kwargs.get(k, None) for every required and optional k
final_kwargs(kwargs) == [k \in required_args \cup optional_args |-> IF k \in DOMAIN kwargs THEN kwargs[k] ELSE None]

\* the object before __init__ has set any attribute
NoDescriptor == [cls |-> "none"]

\* self.ds_name = ds_name; self.data_path = data_path; self.__dict__.update(final_kwargs)
Descriptor(cls, ds_name, data_path, fk) ==
    [cls |-> cls, ds_name |-> ds_name, data_path |-> data_path,
     num_classes |-> fk["num_classes"], mean |-> fk["mean"], std |-> fk["std"],
     transform_train |-> fk["transform_train"], transform_test |-> fk["transform_test"],
     custom_class |-> fk["custom_class"], label_mapping |-> fk["label_mapping"],
     custom_class_args |-> fk["custom_class_args"]]

\* the two checks in the other order
DataSet__init__ExtraFirst(cls, ds_name, data_path, kwargs) ==
    IF Cardinality(extra_args(kwargs)) > 0
    THEN [raised |-> TRUE, err |-> ValueError("Got unrecognized args", extra_args(kwargs), ""),
          self |-> NoDescriptor]
    ELSE IF Cardinality(missing_args(kwargs)) > 0
    THEN [raised |-> TRUE, err |-> ValueError("Missing required args", missing_args(kwargs), ""),
          self |-> NoDescriptor]
    ELSE [raised |-> FALSE, err |-> NoError,
          self |-> Descriptor(cls, ds_name, data_path, final_kwargs(kwargs))]

\* the check for unrecognized names left out: final_kwargs drops them silently
DataSet__init__NoExtraCheck(cls, ds_name, data_path, kwargs) ==
    IF Cardinality(missing_args(kwargs)) > 0
    THEN [raised |-> TRUE, err |-> ValueError("Missing required args", missing_args(kwargs), ""),
          self |-> NoDescriptor]
    ELSE [raised |-> FALSE, err |-> NoError,
          self |-> Descriptor(cls, ds_name, data_path, final_kwargs(kwargs))]

DataSet__init__(cls, ds_name, data_path, kwargs) ==
    IF Cardinality(missing_args(kwargs)) > 0
    THEN [raised |-> TRUE, err |-> ValueError("Missing required args", missing_args(kwargs), ""),
          self |-> NoDescriptor]
    ELSE IF Cardinality(extra_args(kwargs)) > 0
    THEN [raised |-> TRUE, err |-> ValueError("Got unrecognized args", extra_args(kwargs), ""),
          self |-> NoDescriptor]
    ELSE [raised |-> FALSE, err |-> NoError,
          self |-> Descriptor(cls, ds_name, data_path, final_kwargs(kwargs))]

(* ---------------------------- DataSet.override_args -------------------- *)
\* the test of one loop iteration: k is in default_args, neither value is
\* None, and kwargs[k] is not an instance of type(default_args[k])
BadOverride(default_args, kwargs, k) ==
    /\ k \in DOMAIN default_args
    /\ default_args[k] # None /\ kwargs[k] # None
    /\ ~ isinstance(kwargs[k], default_args[k].type)

\* `for k in kwargs` from position i of the iteration order on: the first
\* key that makes the loop raise, or "" when the loop runs to its end
RECURSIVE FirstBad(_, _, _, _)
FirstBad(default_args, kwargs, order, i) ==
    IF i > Len(order) THEN ""
    ELSE IF BadOverride(default_args, kwargs, order[i]) THEN order[i]
    ELSE FirstBad(default_args, kwargs, order, i + 1)

\* order is the iteration order of the dict kwargs (its insertion order).
\* default_args and kwargs in the result are the two dicts as the call
\* leaves them.
override_args(self, default_args, kwargs, order) ==
    LET k == FirstBad(default_args, kwargs, order, 1) IN
    IF k # ""
    THEN [raised |-> TRUE,
          err |-> ValueError("Argument should have type", {k}, default_args[k].type),
          ret |-> EmptyDict, calls |-> <<>>, self |-> self,
          default_args |-> default_args, kwargs |-> kwargs]
    ELSE [raised |-> FALSE, err |-> NoError,
          ret |-> DictMerge(default_args, kwargs), calls |-> <<>>, self |-> self,
          default_args |-> default_args, kwargs |-> kwargs]

(* ---------------------------- external collaborators ------------------- *)
\* constants.RESTRICTED_IMAGNET_RANGES: the nine class ranges of the
\* RestrictedImageNet docstring (dog, cat, frog, turtle, bird, monkey,
\* fish, crab, insect)
RESTRICTED_IMAGNET_RANGES ==
    << <<151, 268>>, <<281, 285>>, <<30, 32>>, <<33, 37>>, <<80, 100>>,
       <<365, 382>>, <<389, 397>>, <<118, 121>>, <<300, 319>> >>

\* tools.helpers.get_label_mapping: a label-mapping function built from the
\* given groups; v records how many groups it was built from
get_label_mapping(ds_name, ranges) == Function(Len(ranges))

\* the names defined in imagenet_models.__dict__
imagenet_models == {"resnet50"}

\* the module returned by an architecture builder
Model(arch) == [type |-> "Module", v |-> 50]

\* da.TRAIN_TRANSFORMS_IMAGENET, da.TEST_TRANSFORMS_IMAGENET
TRAIN_TRANSFORMS_IMAGENET == Compose(1)
TEST_TRANSFORMS_IMAGENET == Compose(2)
\* da.TRAIN_TRANSFORMS_DEFAULT(size), da.TEST_TRANSFORMS_DEFAULT(size)
TRAIN_TRANSFORMS_DEFAULT(size) == Compose(size + 1)
TEST_TRANSFORMS_DEFAULT(size) == Compose(size + 2)

\* the pair of loaders returned by loaders.make_loaders
Loaders == [type |-> "tuple", v |-> 2]

(* ---------------------------- variant constructors --------------------- *)
default_keys == {"num_classes", "mean", "std", "custom_class", "label_mapping", "transform_train", "transform_test"}

\* a ds_kwargs literal of a variant constructor
ds_kwargs(num_classes, mean, std, label_mapping, transform_train, transform_test) ==
    [k \in default_keys |->
        CASE k = "num_classes" -> num_classes
          [] k = "mean" -> mean
          [] k = "std" -> std
          [] k = "custom_class" -> None
          [] k = "label_mapping" -> label_mapping
          [] k = "transform_train" -> transform_train
          [] k = "transform_test" -> transform_test]

ImageNet_ds_kwargs ==
    ds_kwargs(PyInt(1000), Tensor(1), Tensor(2), None,
              TRAIN_TRANSFORMS_IMAGENET, TEST_TRANSFORMS_IMAGENET)

Places365_ds_kwargs ==
    ds_kwargs(PyInt(365), Tensor(1), Tensor(2), None,
              TRAIN_TRANSFORMS_DEFAULT(256), TEST_TRANSFORMS_DEFAULT(256))

RestrictedImageNet_ds_kwargs ==
    ds_kwargs(PyInt(Len(RESTRICTED_IMAGNET_RANGES)), Tensor(3), Tensor(4),
              get_label_mapping("restricted_imagenet", RESTRICTED_IMAGNET_RANGES),
              TRAIN_TRANSFORMS_IMAGENET, TEST_TRANSFORMS_IMAGENET)

\* the class count left at ImageNet's 1000
CustomImageNet_ds_kwargs_FullCount(custom_grouping) ==
    ds_kwargs(PyInt(1000), Tensor(3), Tensor(4),
              get_label_mapping("custom_imagenet", custom_grouping),
              TRAIN_TRANSFORMS_IMAGENET, TEST_TRANSFORMS_IMAGENET)

CustomImageNet_ds_kwargs(custom_grouping) ==
    ds_kwargs(PyInt(Len(custom_grouping)), Tensor(3), Tensor(4),
              get_label_mapping("custom_imagenet", custom_grouping),
              TRAIN_TRANSFORMS_IMAGENET, TEST_TRANSFORMS_IMAGENET)

\* ds_kwargs = self.override_args(ds_kwargs, kwargs);
\* super().__init__(ds_name, data_path, **ds_kwargs)
\* ov is the outcome of the override_args call, init that of DataSet.__init__
\* (not reached when override_args raises)
Variant__init__(cls, ds_name, defaults, data_path, kwargs, order) ==
    LET ov == override_args(NoDescriptor, defaults, kwargs, order) IN
    IF ov.raised
    THEN [raised |-> TRUE, err |-> ov.err, self |-> NoDescriptor,
          default_args |-> defaults, ov |-> ov,
          init_called |-> FALSE, init_kwargs |-> EmptyDict]
    ELSE LET init == DataSet__init__(cls, ds_name, data_path, ov.ret) IN
         [raised |-> init.raised, err |-> init.err, self |-> init.self,
          default_args |-> defaults, ov |-> ov,
          init_called |-> TRUE, init_kwargs |-> ov.ret]

ImageNet__init__(data_path, kwargs, order) ==
    Variant__init__("ImageNet", "imagenet", ImageNet_ds_kwargs, data_path, kwargs, order)

Places365__init__(data_path, kwargs, order) ==
    Variant__init__("Places365", "places365", Places365_ds_kwargs, data_path, kwargs, order)

RestrictedImageNet__init__(data_path, kwargs, order) ==
    Variant__init__("RestrictedImageNet", "restricted_imagenet",
                    RestrictedImageNet_ds_kwargs, data_path, kwargs, order)

CustomImageNet__init__(data_path, custom_grouping, kwargs, order) ==
    Variant__init__("CustomImageNet", "custom_imagenet",
                    CustomImageNet_ds_kwargs(custom_grouping), data_path, kwargs, order)

(* ---------------------------- get_model -------------------------------- *)
\* imagenet_models.__dict__[arch](**call_kwargs): the subscript raises
\* KeyError for a name the module does not define
\* the lookup written as __dict__.get(arch): an unknown name yields None and
\* calling it raises TypeError
BuildModel_GetNone(self, arch, call_kwargs) ==
    IF arch \notin imagenet_models
    THEN [raised |-> TRUE, err |-> [kind |-> "TypeError", text |-> "", names |-> {}, type |-> ""],
          ret |-> None, calls |-> <<>>, self |-> self]
    ELSE [raised |-> FALSE, err |-> NoError, ret |-> Model(arch),
          calls |-> << [fn |-> arch, kwargs |-> call_kwargs] >>, self |-> self]

BuildModel(self, arch, call_kwargs) ==
    IF arch \notin imagenet_models
    THEN [raised |-> TRUE, err |-> KeyError(arch), ret |-> None, calls |-> <<>>, self |-> self]
    ELSE [raised |-> FALSE, err |-> NoError, ret |-> Model(arch),
          calls |-> << [fn |-> arch, kwargs |-> call_kwargs] >>, self |-> self]

DataSet_get_model(self, arch, pretrained) ==
    [raised |-> TRUE, err |-> NotImplementedError, ret |-> None, calls |-> <<>>, self |-> self]

ImageNet_get_model(self, arch, pretrained) ==
    BuildModel(self, arch, [num_classes |-> self.num_classes, pretrained |-> pretrained])

Places365_get_model(self, arch, pretrained) ==
    BuildModel(self, arch, [num_classes |-> self.num_classes, pretrained |-> pretrained])

\* the pretrained check left out, as in ImageNet.get_model
RestrictedImageNet_get_model_NoCheck(self, arch, pretrained) ==
    BuildModel(self, arch, [num_classes |-> self.num_classes, pretrained |-> pretrained])

RestrictedImageNet_get_model(self, arch, pretrained) ==
    IF pretrained
    THEN [raised |-> TRUE,
          err |-> ValueError("Dataset doesn't support pytorch_pretrained", {}, ""),
          ret |-> None, calls |-> <<>>, self |-> self]
    ELSE BuildModel(self, arch, [num_classes |-> self.num_classes])

CustomImageNet_get_model(self, arch, pretrained) ==
    IF pretrained
    THEN [raised |-> TRUE,
          err |-> ValueError("Dataset doesn't support pytorch_pretrained", {}, ""),
          ret |-> None, calls |-> <<>>, self |-> self]
    ELSE BuildModel(self, arch, [num_classes |-> self.num_classes])

\* method resolution on the class of self
get_model(self, arch, pretrained) ==
    CASE self.cls = "ImageNet" -> ImageNet_get_model(self, arch, pretrained)
      [] self.cls = "Places365" -> Places365_get_model(self, arch, pretrained)
      [] self.cls = "RestrictedImageNet" -> RestrictedImageNet_get_model(self, arch, pretrained)
      [] self.cls = "CustomImageNet" -> CustomImageNet_get_model(self, arch, pretrained)
      [] OTHER -> DataSet_get_model(self, arch, pretrained)

(* ---------------------------- make_loaders ----------------------------- *)
\* the two transforms in the other order
make_loaders_kwargs_Swapped(self, o) ==
    [workers |-> o.workers,
     batch_size |-> o.batch_size,
     transforms |-> <<self.transform_test, self.transform_train>>,
     data_path |-> self.data_path,
     data_aug |-> o.data_aug,
     dataset |-> self.ds_name,
     label_mapping |-> self.label_mapping,
     custom_class |-> self.custom_class,
     val_batch_size |-> o.val_batch_size,
     subset |-> o.subset,
     subset_start |-> o.subset_start,
     subset_type |-> o.subset_type,
     only_val |-> o.only_val,
     seed |-> o.subset_seed,
     shuffle_train |-> o.shuffle_train,
     shuffle_val |-> o.shuffle_val,
     custom_class_args |-> self.custom_class_args]

\* the keyword arguments of the one call to loaders.make_loaders
make_loaders_kwargs(self, o) ==
    [workers |-> o.workers,
     batch_size |-> o.batch_size,
     transforms |-> <<self.transform_train, self.transform_test>>,
     data_path |-> self.data_path,
     data_aug |-> o.data_aug,
     dataset |-> self.ds_name,
     label_mapping |-> self.label_mapping,
     custom_class |-> self.custom_class,
     val_batch_size |-> o.val_batch_size,
     subset |-> o.subset,
     subset_start |-> o.subset_start,
     subset_type |-> o.subset_type,
     only_val |-> o.only_val,
     seed |-> o.subset_seed,
     shuffle_train |-> o.shuffle_train,
     shuffle_val |-> o.shuffle_val,
     custom_class_args |-> self.custom_class_args]

\* a missing custom_class_args defaulted in place before the call
make_loaders_SetsDefault(self, o) ==
    LET filled == IF self.custom_class_args = None
                  THEN [self EXCEPT !.custom_class_args = Dict(0)]
                  ELSE self
    IN [raised |-> FALSE, err |-> NoError, ret |-> Loaders,
        calls |-> << [fn |-> "loaders.make_loaders", kwargs |-> make_loaders_kwargs(filled, o)] >>,
        self |-> filled]

\* o holds the eleven parameters of make_loaders
make_loaders(self, o) ==
    [raised |-> FALSE, err |-> NoError, ret |-> Loaders,
     calls |-> << [fn |-> "loaders.make_loaders", kwargs |-> make_loaders_kwargs(self, o)] >>,
     self |-> self]

(* ---------------------------- inputs ----------------------------------- *)
recognized_args == required_args \cup optional_args

\* two names that no DataSet accepts
unrecognized_args == {"foo", "bar"}

\* a well-typed value for each keyword
Canonical(k) ==
    CASE k = "num_classes" -> PyInt(10)
      [] k = "mean" -> Tensor(5)
      [] k = "std" -> Tensor(6)
      [] k = "transform_train" -> TRAIN_TRANSFORMS_IMAGENET
      [] k = "transform_test" -> TEST_TRANSFORMS_IMAGENET
      [] k = "custom_class" -> Class(1)
      [] k = "label_mapping" -> Function(0)
      [] k = "custom_class_args" -> Dict(1)
      [] OTHER -> PyInt(5)

\* the kwargs given to DataSet.__init__ directly: any set of the ten names,
\* each recognized one bound to None or to a well-typed value
DirectKwargs ==
    { [k \in S |-> IF k \in N THEN None ELSE Canonical(k)] :
        <<S, N>> \in { sn \in (SUBSET (recognized_args \cup unrecognized_args)) \X (SUBSET recognized_args) :
                        sn[2] \subseteq sn[1] } }

\* the values a caller overrides a default with: None, an int, a bool (a
\* subclass of int) and a function
OverrideValues == {None, PyInt(5), PyBool(1), Function(0)}

OverrideKeys == recognized_args \cup {"foo"}

\* the overrides given to a variant constructor: at most MaxOverrides keywords
OverrideKwargs ==
    UNION { [S -> OverrideValues] : S \in { T \in SUBSET OverrideKeys : Cardinality(T) <= MaxOverrides } }

\* the orders in which a dict with the key set S can iterate
Orders(S) == { o \in [1..Cardinality(S) -> S] : \A i, j \in 1..Cardinality(S) : o[i] = o[j] => i = j }

DataPaths == {"/data/imagenet"}

\* custom_grouping arguments: 1..MaxGroups groups of wnids
CustomGroupings == { [i \in 1..n |-> <<i>>] : n \in 1..MaxGroups }

ArchNames == imagenet_models \cup {"no_such_arch"}

\* argument lists of make_loaders: the declared defaults and two others
LoaderOptions ==
    { [workers |-> 8, batch_size |-> 128, data_aug |-> TRUE, subset |-> None, subset_start |-> 0,
       subset_type |-> "rand", val_batch_size |-> None, only_val |-> FALSE,
       shuffle_train |-> TRUE, shuffle_val |-> TRUE, subset_seed |-> None],
      [workers |-> 4, batch_size |-> 32, data_aug |-> FALSE, subset |-> PyInt(100), subset_start |-> 10,
       subset_type |-> "first", val_batch_size |-> PyInt(64), only_val |-> TRUE,
       shuffle_train |-> FALSE, shuffle_val |-> TRUE, subset_seed |-> PyInt(1)],
      [workers |-> 2, batch_size |-> 16, data_aug |-> TRUE, subset |-> PyInt(50), subset_start |-> 5,
       subset_type |-> "last", val_batch_size |-> None, only_val |-> FALSE,
       shuffle_train |-> TRUE, shuffle_val |-> FALSE, subset_seed |-> None] }

\* the dicts given to override_args when it is called on a constructed descriptor
MethodDefaults == { [k \in {"num_classes"} |-> v] : v \in {PyInt(1000), None} }
MethodKwargs == UNION { [S -> OverrideValues] : S \in SUBSET {"num_classes"} }

(* ---------------------------- state ------------------------------------ *)
VARIABLES pc, ds, grouping, last
\* pc       : "start" before the constructor call, "constructed" once a
\*            constructor returned, "failed" once it raised
\* ds       : the descriptor object (its class and attributes)
\* grouping : the groups the variant built its label mapping from
\* last     : the most recent call: its name, arguments and outcome

vars == <<pc, ds, grouping, last>>

VariantOps == {"ImageNet", "Places365", "RestrictedImageNet", "CustomImageNet"}

Init ==
    /\ pc = "start"
    /\ ds = NoDescriptor
    /\ grouping = <<>>
    /\ last = [op |-> "none"]

Constructed(op, args, out, groups) ==
    /\ pc' = IF out.raised THEN "failed" ELSE "constructed"
    /\ ds' = out.self
    /\ grouping' = groups
    /\ last' = [op |-> op, args |-> args, out |-> out]

NewDataSet ==
    /\ pc = "start"
    /\ \E data_path \in DataPaths, kwargs \in DirectKwargs :
         Constructed("DataSet", [data_path |-> data_path, kwargs |-> kwargs],
                     DataSet__init__("DataSet", "dataset", data_path, kwargs), <<>>)

NewImageNet ==
    /\ pc = "start"
    /\ \E data_path \in DataPaths, kwargs \in OverrideKwargs :
         \E order \in Orders(DOMAIN kwargs) :
           Constructed("ImageNet", [data_path |-> data_path, kwargs |-> kwargs],
                       ImageNet__init__(data_path, kwargs, order), <<>>)

NewPlaces365 ==
    /\ pc = "start"
    /\ \E data_path \in DataPaths, kwargs \in OverrideKwargs :
         \E order \in Orders(DOMAIN kwargs) :
           Constructed("Places365", [data_path |-> data_path, kwargs |-> kwargs],
                       Places365__init__(data_path, kwargs, order), <<>>)

NewRestrictedImageNet ==
    /\ pc = "start"
    /\ \E data_path \in DataPaths, kwargs \in OverrideKwargs :
         \E order \in Orders(DOMAIN kwargs) :
           Constructed("RestrictedImageNet", [data_path |-> data_path, kwargs |-> kwargs],
                       RestrictedImageNet__init__(data_path, kwargs, order),
                       RESTRICTED_IMAGNET_RANGES)

NewCustomImageNet ==
    /\ pc = "start"
    /\ \E data_path \in DataPaths, custom_grouping \in CustomGroupings, kwargs \in OverrideKwargs :
         \E order \in Orders(DOMAIN kwargs) :
           Constructed("CustomImageNet",
                       [data_path |-> data_path, kwargs |-> kwargs, custom_grouping |-> custom_grouping],
                       CustomImageNet__init__(data_path, custom_grouping, kwargs, order),
                       custom_grouping)

\* a method call on the constructed descriptor; an exception it raises
\* reaches the caller and leaves the descriptor in use
Called(op, args, out) ==
    /\ pc' = pc
    /\ ds' = out.self
    /\ grouping' = grouping
    /\ last' = [op |-> op, args |-> args, out |-> out]

CallOverrideArgs ==
    /\ pc = "constructed"
    /\ \E default_args \in MethodDefaults, kwargs \in MethodKwargs :
         \E order \in Orders(DOMAIN kwargs) :
           Called("override_args", [default_args |-> default_args, kwargs |-> kwargs],
                  override_args(ds, default_args, kwargs, order))

CallGetModel ==
    /\ pc = "constructed"
    /\ \E arch \in ArchNames, pretrained \in BOOLEAN :
         Called("get_model", [arch |-> arch, pretrained |-> pretrained],
                get_model(ds, arch, pretrained))

CallMakeLoaders ==
    /\ pc = "constructed"
    /\ \E o \in LoaderOptions :
         Called("make_loaders", o, make_loaders(ds, o))

Next ==
    \/ NewDataSet
    \/ NewImageNet
    \/ NewPlaces365
    \/ NewRestrictedImageNet
    \/ NewCustomImageNet
    \/ CallOverrideArgs
    \/ CallGetModel
    \/ CallMakeLoaders

Spec == Init /\ [][Next]_vars

(* ---------------------------- views of the last call ------------------- *)
\* DataSet.__init__ ran in the last call, with the kwargs InitKwargs
InitCalled == last.op = "DataSet" \/ (last.op \in VariantOps /\ last.out.init_called)
InitKwargs == IF last.op = "DataSet" THEN last.args.kwargs ELSE last.out.init_kwargs

\* override_args ran in the last call, on OvDefaults and OvKwargs, with outcome Ov
OvCalled == last.op = "override_args" \/ last.op \in VariantOps
OvDefaults == IF last.op = "override_args" THEN last.args.default_args ELSE last.out.default_args
OvKwargs == last.args.kwargs
Ov == IF last.op = "override_args" THEN last.out ELSE last.out.ov

RemappedVariants == {"RestrictedImageNet", "CustomImageNet"}

(* ---------------------------- C1 --------------------------------------- *)
\* C1: whenever DataSet.__init__ is given kwargs lacking a required field,
\* it raises ValueError "Missing required args" and the names reported are
\* exactly the required fields absent from kwargs, whatever else kwargs holds;
\* no descriptor results.
C1_MissingArgsReported ==
    (InitCalled /\ ~ (required_args \subseteq DOMAIN InitKwargs)) =>
        /\ last.out.raised
        /\ last.out.err.kind = "ValueError"
        /\ last.out.err.text = "Missing required args"
        /\ last.out.err.names = { k \in required_args : k \notin DOMAIN InitKwargs }
        /\ pc = "failed" /\ ds = NoDescriptor

\* two required fields missing while an unrecognized and an optional key are present
C1_Witness ==
    /\ last.op = "DataSet"
    /\ last.out.raised
    /\ Cardinality(required_args \ DOMAIN last.args.kwargs) >= 2
    /\ "foo" \in DOMAIN last.args.kwargs
    /\ "label_mapping" \in DOMAIN last.args.kwargs

(* ---------------------------- C2 --------------------------------------- *)
\* C2 as stated: whenever kwargs holds an unrecognized key, DataSet.__init__
\* raises ValueError and the error names every unrecognized key, also when
\* required fields are missing.
C2_Original ==
    (InitCalled /\ ~ (DOMAIN InitKwargs \subseteq recognized_args)) =>
        /\ last.out.raised
        /\ last.out.err.kind = "ValueError"
        /\ (DOMAIN InitKwargs \ recognized_args) \subseteq last.out.err.names

\* C2 amended: whenever kwargs holds an unrecognized key, DataSet.__init__
\* raises ValueError; when no required field is missing the error is "Got
\* unrecognized args" naming exactly the unrecognized keys, and when a
\* required field is missing the error names the missing fields instead.
C2_UnrecognizedArgsRejected ==
    (InitCalled /\ ~ (DOMAIN InitKwargs \subseteq recognized_args)) =>
        /\ last.out.raised
        /\ last.out.err.kind = "ValueError"
        /\ pc = "failed" /\ ds = NoDescriptor
        /\ IF required_args \subseteq DOMAIN InitKwargs
           THEN /\ last.out.err.text = "Got unrecognized args"
                /\ last.out.err.names = { k \in DOMAIN InitKwargs : k \notin recognized_args }
           ELSE /\ last.out.err.text = "Missing required args"
                /\ last.out.err.names = { k \in required_args : k \notin DOMAIN InitKwargs }

\* all required fields given, two unrecognized keys reported
C2_Witness ==
    /\ last.op = "DataSet"
    /\ required_args \subseteq DOMAIN last.args.kwargs
    /\ last.out.raised
    /\ last.out.err.names = {"foo", "bar"}

(* ---------------------------- C3 --------------------------------------- *)
\* C3: in every constructed descriptor, of whichever class, mean, std,
\* transform_train and transform_test are not None.
C3_RequiredFieldsNonNull ==
    pc = "constructed" =>
        /\ ds.mean # None
        /\ ds.std # None
        /\ ds.transform_train # None
        /\ ds.transform_test # None

(* ---------------------------- C4 --------------------------------------- *)
\* C4 as stated: in every RestrictedImageNet or CustomImageNet descriptor
\* whose label_mapping is not None, num_classes is the number of groups the
\* variant built its label mapping from, whatever overrides were accepted.
C4_Original ==
    (pc = "constructed" /\ ds.cls \in RemappedVariants /\ ds.label_mapping # None) =>
        ds.num_classes = PyInt(Len(grouping))

\* C4 amended: a RestrictedImageNet or CustomImageNet descriptor whose
\* label_mapping is not None has num_classes equal to the number of groups
\* when the caller did not override num_classes, and equal to the caller's
\* num_classes override when one was given.
C4_ClassCountFromGroups ==
    (last.op \in RemappedVariants /\ pc = "constructed" /\ ds.label_mapping # None) =>
        ds.num_classes = IF "num_classes" \in DOMAIN last.args.kwargs
                         THEN last.args.kwargs["num_classes"]
                         ELSE PyInt(Len(grouping))

\* CustomImageNet built from two groups, label_mapping overridden, num_classes not
C4_Witness ==
    /\ last.op = "CustomImageNet"
    /\ pc = "constructed"
    /\ Len(grouping) = 2
    /\ DOMAIN last.args.kwargs = {"label_mapping"}
    /\ ds.label_mapping = Function(0)
    /\ ds.num_classes = PyInt(2)

(* ---------------------------- C5 --------------------------------------- *)
\* C5 as stated: on every descriptor whose label_mapping is not None,
\* get_model with pretrained=True raises ValueError and builds no model.
C5_Original ==
    (last.op = "get_model" /\ ds.label_mapping # None /\ last.args.pretrained) =>
        /\ last.out.raised
        /\ last.out.err.kind = "ValueError"
        /\ last.out.calls = <<>>

\* C5 amended: on every RestrictedImageNet or CustomImageNet descriptor,
\* whatever its label_mapping, get_model with pretrained=True raises
\* ValueError "Dataset doesn't support pytorch_pretrained" and builds no
\* model, for every architecture name.
C5_PretrainedRejectedOnRemapped ==
    (last.op = "get_model" /\ ds.cls \in RemappedVariants /\ last.args.pretrained) =>
        /\ last.out.raised
        /\ last.out.err.kind = "ValueError"
        /\ last.out.err.text = "Dataset doesn't support pytorch_pretrained"
        /\ last.out.calls = <<>>

\* pretrained requested on a RestrictedImageNet for a registered architecture
C5_Witness ==
    /\ last.op = "get_model"
    /\ ds.cls = "RestrictedImageNet"
    /\ ds.label_mapping # None
    /\ last.args.pretrained
    /\ last.args.arch \in imagenet_models
    /\ last.out.raised

(* ---------------------------- C6 --------------------------------------- *)
\* C6 as stated: override_args raises whenever some key of both dicts has
\* non-None values of two different concrete types.
C6_Original ==
    (OvCalled /\ \E k \in DOMAIN OvKwargs \cap DOMAIN OvDefaults :
                    /\ OvDefaults[k] # None /\ OvKwargs[k] # None
                    /\ OvKwargs[k].type # OvDefaults[k].type) =>
        Ov.raised

\* C6 amended: override_args raises exactly when some key of both dicts has
\* non-None values and the override is not an instance of the default's
\* type (an instance of a subclass, such as a bool for an int, is accepted);
\* the ValueError names such a key and the type of its default.  It never
\* raises on account of a None value or of a key absent from the defaults.
C6_TypeMismatchRejected ==
    OvCalled =>
        /\ Ov.raised <=> \E k \in DOMAIN OvKwargs \cap DOMAIN OvDefaults :
                            /\ OvDefaults[k] # None /\ OvKwargs[k] # None
                            /\ ~ (OvKwargs[k].type = OvDefaults[k].type
                                   \/ (OvKwargs[k].type = "bool" /\ OvDefaults[k].type = "int"))
        /\ Ov.raised =>
             /\ Ov.err.kind = "ValueError"
             /\ Ov.err.text = "Argument should have type"
             /\ \E k \in DOMAIN OvKwargs \cap DOMAIN OvDefaults :
                   /\ Ov.err.names = {k}
                   /\ Ov.err.type = OvDefaults[k].type
                   /\ OvDefaults[k] # None /\ OvKwargs[k] # None
                   /\ OvKwargs[k].type # OvDefaults[k].type
                   /\ ~ (OvKwargs[k].type = "bool" /\ OvDefaults[k].type = "int")

\* a function given for the tensor default mean is rejected, beside a bool
\* given for the int default num_classes
C6_Witness ==
    /\ last.op = "ImageNet"
    /\ Ov.raised
    /\ DOMAIN OvKwargs = {"mean", "num_classes"}
    /\ OvKwargs["mean"] = Function(0)
    /\ OvKwargs["num_classes"] = PyBool(1)
    /\ Ov.err.names = {"mean"}
    /\ Ov.err.type = "Tensor"

(* ---------------------------- C7 --------------------------------------- *)
\* C7: when override_args returns, the result has the keys of both dicts,
\* every key of the overrides bound to the override value (None included)
\* and every other key to its default, and the two dicts given are as they
\* were before the call.
C7_MergeOverridesWin ==
    (OvCalled /\ ~ Ov.raised) =>
        /\ DOMAIN Ov.ret = DOMAIN OvDefaults \cup DOMAIN OvKwargs
        /\ \A k \in DOMAIN OvKwargs : Ov.ret[k] = OvKwargs[k]
        /\ \A k \in DOMAIN OvDefaults \ DOMAIN OvKwargs : Ov.ret[k] = OvDefaults[k]
        /\ Ov.default_args = OvDefaults
        /\ Ov.kwargs = OvKwargs

\* a None override replaced a non-None default and a new key was added
C7_Witness ==
    /\ OvCalled /\ ~ Ov.raised
    /\ "mean" \in DOMAIN OvKwargs
    /\ OvKwargs["mean"] = None
    /\ OvDefaults["mean"] # None
    /\ Ov.ret["mean"] = None
    /\ "custom_class_args" \in DOMAIN OvKwargs

(* ---------------------------- C8 --------------------------------------- *)
\* C8 as stated: make_loaders makes exactly one call to loaders.make_loaders,
\* carrying data_path, both transforms, label_mapping, mean and std.
C8_Original ==
    last.op = "make_loaders" =>
        /\ Len(last.out.calls) = 1
        /\ "mean" \in DOMAIN last.out.calls[1].kwargs
        /\ "std" \in DOMAIN last.out.calls[1].kwargs

\* C8 amended: make_loaders makes exactly one call to loaders.make_loaders,
\* carrying the descriptor's data_path, (transform_train, transform_test),
\* label_mapping, ds_name, custom_class and custom_class_args and the
\* caller's eleven options unchanged (subset_seed under the name seed); the
\* call carries neither mean nor std.
C8_LoaderCallForwards ==
    last.op = "make_loaders" =>
        /\ ~ last.out.raised
        /\ Len(last.out.calls) = 1
        /\ last.out.calls[1].fn = "loaders.make_loaders"
        /\ LET kw == last.out.calls[1].kwargs
               o == last.args
           IN /\ kw.data_path = ds.data_path
              /\ kw.transforms = <<ds.transform_train, ds.transform_test>>
              /\ kw.label_mapping = ds.label_mapping
              /\ kw.dataset = ds.ds_name
              /\ kw.custom_class = ds.custom_class
              /\ kw.custom_class_args = ds.custom_class_args
              /\ kw.workers = o.workers /\ kw.batch_size = o.batch_size
              /\ kw.data_aug = o.data_aug /\ kw.subset = o.subset
              /\ kw.subset_start = o.subset_start /\ kw.subset_type = o.subset_type
              /\ kw.val_batch_size = o.val_batch_size /\ kw.only_val = o.only_val
              /\ kw.shuffle_train = o.shuffle_train /\ kw.shuffle_val = o.shuffle_val
              /\ kw.seed = o.subset_seed
              /\ "mean" \notin DOMAIN kw /\ "std" \notin DOMAIN kw

\* loaders requested with non-default options on a descriptor with a label mapping
C8_Witness ==
    /\ last.op = "make_loaders"
    /\ ds.label_mapping # None
    /\ ds.mean # None /\ ds.std # None
    /\ last.args.subset_type = "first"
    /\ Len(last.out.calls) = 1

(* ---------------------------- C9 --------------------------------------- *)
\* C9 as stated: on every concrete variant, get_model with an architecture
\* name outside the registry raises ValueError, the error kind of the other
\* configuration failures.
C9_Original ==
    (last.op = "get_model" /\ ds.cls \in VariantOps /\ last.args.arch \notin imagenet_models) =>
        /\ last.out.raised
        /\ last.out.err.kind = "ValueError"

\* C9 amended: on every concrete variant, get_model with an architecture
\* name outside the registry raises and builds no model; the exception is
\* the KeyError of the registry lookup, naming the architecture, except on
\* RestrictedImageNet and CustomImageNet with pretrained=True, where the
\* ValueError of the pretrained check comes first.
C9_UnknownArchRaises ==
    (last.op = "get_model" /\ ds.cls \in VariantOps /\ last.args.arch \notin imagenet_models) =>
        /\ last.out.raised
        /\ last.out.calls = <<>>
        /\ IF ds.cls \in RemappedVariants /\ last.args.pretrained
           THEN last.out.err.kind = "ValueError"
           ELSE /\ last.out.err.kind = "KeyError"
                /\ last.out.err.names = {last.args.arch}

\* an unregistered architecture requested from an ImageNet descriptor
C9_Witness ==
    /\ last.op = "get_model"
    /\ ds.cls = "ImageNet"
    /\ last.args.arch = "no_such_arch"
    /\ last.out.raised
    /\ last.out.err.kind = "KeyError"

(* ---------------------------- C10 -------------------------------------- *)
\* C10: once a descriptor is constructed, no call of override_args,
\* get_model or make_loaders, returning or raising, changes any of its
\* fields (nor its class).
C10_FieldsNeverMutated == [][pc = "constructed" => ds' = ds]_vars

\* a method call raised on a constructed descriptor carrying overrides
C10_Witness ==
    /\ pc = "constructed"
    /\ last.op = "override_args"
    /\ last.out.raised
    /\ ds.cls = "CustomImageNet"
    /\ ds.custom_class_args # None

====
